---- MODULE Spec2Model ----
(***************************************************************************)
(* Multiplayer room registry of diabloweb: the create / join / leave       *)
(* routes and the socket gateway, in the three server variants found in    *)
(* the repository:                                                         *)
(*   "mongoose"  - src/server/index.js   (Mongoose documents, save())      *)
(*   "mongodb"   - src/unnamed/part_002  (native driver, $push / $pull)    *)
(*   "firestore" - src/unnamed/part_003  (Firestore, arrayUnion / update)  *)
(*                                                                         *)
(* Every route handler is an async function.  Between two awaits the       *)
(* handler runs alone (one event loop); at an await other handlers run.    *)
(* One action of the model = one awaited database operation taking effect  *)
(* followed by the handler's code up to the next await.  The Start action  *)
(* is the arrival of the request and the code before the first await.      *)
(***************************************************************************)
EXTENDS Integers, Sequences, FiniteSets, TLC

(* ------------------------------ bounds --------------------------------- *)
NumUsers == 3
MaxRooms == 2
NumSlots == 2
MaxOps == 3
MaxGatewayOps == 3
MaxSockets == 1

UserIds == 1..NumUsers
RoomIds == 1..MaxRooms
Slots == 1..NumSlots

(* --------------------------- program constants ------------------------- *)
Backends == {"mongoose", "mongodb", "firestore"}
DefaultMaxPlayers == 4
NoPassword == "none"

(* request bodies the clients send: maxPlayers 0 stands for a missing / falsy value *)
CreateBodies ==
  { [name |-> "",         maxPlayers |-> 2,  isPublic |-> TRUE,  password |-> NoPassword],
    [name |-> "Warriors", maxPlayers |-> 2,  isPublic |-> TRUE,  password |-> NoPassword],
    [name |-> "Warriors", maxPlayers |-> 0,  isPublic |-> TRUE,  password |-> "pw"],
    [name |-> "Warriors", maxPlayers |-> -1, isPublic |-> FALSE, password |-> NoPassword] }
JoinBodies ==
  { [playerName |-> "",  password |-> NoPassword],
    [playerName |-> "p", password |-> NoPassword],
    [playerName |-> "p", password |-> "pw"] }

Null == [null |-> TRUE]

VARIABLES
  backend,      \* which server variant runs
  users,        \* number of identities that have sent a request so far
  adminBound,   \* firestore: does the name `admin` resolve inside the join handler
  rooms,        \* the multiplayerrooms collection: room id -> stored document
  nextId,       \* next fresh document id
  clock,        \* Date.now()
  reqs,         \* in-flight / completed HTTP requests, one per slot
  events,       \* everything emitted through io, in emission order
  budget,       \* HTTP requests that may still arrive
  connected,    \* identities whose socket is connected
  subs,         \* socket -> room ids it has joined (socket.join)
  lostIn,       \* identity -> rooms it was a member of when its socket disconnected
  listed        \* body of the latest response of the room listing (Null: none yet)

vars == <<backend, users, adminBound, rooms, nextId, clock, reqs, events, budget, connected, subs,
          lostIn, listed>>

(* ------------------------------ helpers -------------------------------- *)
RECURSIVE Filter(_, _)
\* Array.prototype.filter(p => p.userId !== uid) / $pull {players: {userId: uid}}
Filter(players, uid) ==
  IF players = <<>> THEN <<>>
  ELSE IF Head(players).userId = uid THEN Filter(Tail(players), uid)
       ELSE <<Head(players)>> \o Filter(Tail(players), uid)

Ids(players) == {players[i].userId : i \in 1..Len(players)}

\* room.players.find(p => p.userId === uid) is defined
HasPlayer(players, uid) == \E i \in 1..Len(players) : players[i].userId = uid

Exists(r) == r \in DOMAIN rooms

\* findById / findOne / doc(roomId).get()
FindRoom(r) == IF Exists(r) THEN rooms[r] ELSE Null

\* insertOne / add / first save of a new document
InsertRoom(r, doc) == [x \in DOMAIN rooms \cup {r} |-> IF x = r THEN doc ELSE rooms[x]]

\* DeleteRoom dropping every stored room
DeleteEveryRoom(r) == [x \in {} |-> rooms[x]]

\* findByIdAndDelete / deleteOne / roomRef.delete(): no-op on an absent id
DeleteRoom(r) == [x \in DOMAIN rooms \ {r} |-> rooms[x]]

\* .select('-password')
SelectNoPassword(doc) == IF doc = Null THEN Null ELSE [doc EXCEPT !.password = NoPassword]

\* connections that receive io.to(roomId).emit(...)
RoomAudience(r) == {u \in connected : r \in subs[u]}

Idle == [pc |-> "idle", op |-> "none", user |-> 0, roomId |-> 0, body |-> Null,
         room |-> Null, newPlayer |-> Null, updated |-> Null,
         result |-> "none", resp |-> Null, with |-> {}, wrote |-> FALSE]

\* res.status(...).json(...): the handler returns
Respond(s, result, resp) ==
  reqs' = [reqs EXCEPT ![s] = [@ EXCEPT !.pc = "done", !.result = result, !.resp = resp]]

Goto(s, pc) == reqs' = [reqs EXCEPT ![s] = [@ EXCEPT !.pc = pc]]

\* `wrote` records whether a write of the request has changed the stored rooms (the
\* drivers report this in the result of the write; the handlers do not look at it)
Wrote(s) == reqs[s].wrote \/ rooms' # rooms

\* the awaited write has been applied; the handler goes on
GotoWritten(s, pc) == reqs' = [reqs EXCEPT ![s] = [@ EXCEPT !.pc = pc, !.wrote = Wrote(s)]]

Emit(type, r, payload, audience) ==
  events' = Append(events, [type |-> type, roomId |-> r, payload |-> payload, to |-> audience])

Free(s) == reqs[s].pc \in {"idle", "done"}

\* a request carrying the token of identity u arrives (authenticateToken passes) and
\* is bound to the first free slot; u is an identity seen before or the next new one
Arrives(s, u) ==
  /\ budget > 0
  /\ u <= users + 1
  /\ users' = IF u > users THEN u ELSE users
  /\ budget' = budget - 1
  /\ Free(s) /\ \A t \in Slots : t < s => ~Free(t)

\* the request is taken in; `with` names the slots whose request is in flight at the
\* same time as this one
Admit(s, req) ==
  reqs' = [t \in Slots |->
             IF t = s THEN [req EXCEPT !.with = {x \in Slots : ~Free(x)}]
             ELSE [reqs[t] EXCEPT !.with = IF Free(t) THEN @ \ {s} ELSE @ \cup {s}]]
At(s, op, pc) == reqs[s].op = op /\ reqs[s].pc = pc

(* ------------------------------- Init ---------------------------------- *)
InitCommon ==
  /\ backend \in Backends
  /\ users = 0
  /\ adminBound \in (IF backend = "firestore" THEN BOOLEAN ELSE {FALSE})
  /\ rooms = <<>>
  /\ nextId = 1
  /\ clock = 1
  /\ reqs = [s \in Slots |-> Idle]
  /\ events = <<>>
  /\ connected = {}
  /\ subs = [u \in UserIds |-> {}]
  /\ lostIn = [u \in UserIds |-> {}]
  /\ listed = Null

Init == InitCommon /\ budget = MaxOps

(* ------------------------- POST /api/multiplayer/rooms ----------------- *)
\* the room object built by the handler
NewRoom(u, body, now) ==
  [name |-> body.name,
   host |-> u,
   maxPlayers |-> IF body.maxPlayers = 0 THEN DefaultMaxPlayers ELSE body.maxPlayers,
   isPublic |-> body.isPublic,
   password |-> body.password,
   players |-> <<[userId |-> u, playerName |-> "user", joinedAt |-> now]>>,
   status |-> "waiting",
   createdAt |-> now,
   v |-> 0]

\* CreateStart handing out the same document id again
CreateStartSameId(s, u, body) ==
  /\ Arrives(s, u) /\ nextId <= MaxRooms
  /\ LET req == [Idle EXCEPT !.op = "create", !.user = u, !.body = body]
     IN IF body.name = ""
        THEN /\ Admit(s, [req EXCEPT !.pc = "done", !.result = "ValidationError"])
             /\ UNCHANGED <<nextId, clock>>
        ELSE /\ Admit(s, [req EXCEPT !.pc = "c_insert", !.roomId = nextId,
                                     !.room = NewRoom(u, body, clock)])
             /\ nextId' = nextId
             /\ clock' = clock + 1
  /\ UNCHANGED <<listed, backend, adminBound, rooms, events, connected, subs, lostIn>>

\* request arrives; `if (!name)`; the user is looked up (the users collection is
\* not written by any room route, so the lookup is folded into this step); the room
\* object is built (timestamps, fresh id); the insert is awaited
CreateStart(s, u, body) ==
  /\ Arrives(s, u) /\ nextId <= MaxRooms
  /\ LET req == [Idle EXCEPT !.op = "create", !.user = u, !.body = body]
     IN IF body.name = ""
        THEN /\ Admit(s, [req EXCEPT !.pc = "done", !.result = "ValidationError"])
             /\ UNCHANGED <<nextId, clock>>
        ELSE /\ Admit(s, [req EXCEPT !.pc = "c_insert", !.roomId = nextId,
                                     !.room = NewRoom(u, body, clock)])
             /\ nextId' = nextId + 1
             /\ clock' = clock + 1
  /\ UNCHANGED <<listed, backend, adminBound, rooms, events, connected, subs, lostIn>>

\* mongoose: room.save() inserts; findById(...).populate().select('-password') is awaited
CreateInsertMongoose(s) ==
  /\ backend = "mongoose"
  /\ At(s, "create", "c_insert")
  /\ rooms' = InsertRoom(reqs[s].roomId, reqs[s].room)
  /\ Goto(s, "c_fetch")
  /\ UNCHANGED <<listed, backend, users, adminBound, nextId, clock, events, budget, connected, subs, lostIn>>

\* mongoose: the re-read document is broadcast to every connection and returned
CreateFetchMongoose(s) ==
  /\ backend = "mongoose"
  /\ At(s, "create", "c_fetch")
  /\ LET populatedRoom == SelectNoPassword(FindRoom(reqs[s].roomId))
     IN /\ Emit("room-created", reqs[s].roomId, populatedRoom, connected)
        /\ Respond(s, "ok", populatedRoom)
  /\ UNCHANGED <<listed, backend, users, adminBound, rooms, nextId, clock, budget, connected, subs, lostIn>>

\* mongodb / firestore: insertOne / add; { ...room } is broadcast and returned
CreateInsertDirect(s) ==
  /\ backend \in {"mongodb", "firestore"}
  /\ At(s, "create", "c_insert")
  /\ rooms' = InsertRoom(reqs[s].roomId, reqs[s].room)
  /\ Emit("room-created", reqs[s].roomId, reqs[s].room, connected)
  /\ Respond(s, "ok", reqs[s].room)
  /\ UNCHANGED <<listed, backend, users, adminBound, nextId, clock, budget, connected, subs, lostIn>>

(* ----------------------- POST /api/multiplayer/rooms/join -------------- *)
\* request arrives; `if (!roomId || !playerName)`; then the room lookup is awaited
JoinStart(s, u, r, body) ==
  /\ Arrives(s, u)
  /\ LET req == [Idle EXCEPT !.op = "join", !.user = u, !.roomId = r, !.body = body]
     IN IF body.playerName = ""
        THEN Admit(s, [req EXCEPT !.pc = "done", !.result = "ValidationError"])
        ELSE Admit(s, [req EXCEPT !.pc = "j_find"])
  /\ UNCHANGED <<listed, backend, adminBound, rooms, nextId, clock, events, connected, subs, lostIn>>

\* JoinCheck with the membership test moved in front of the capacity test
JoinCheckMemberFirst(room, u, password) ==
  IF room = Null THEN "NotFound"
  ELSE IF room.status # "waiting" THEN "InvalidState"
  ELSE IF HasPlayer(room.players, u) THEN "AlreadyJoined"
  ELSE IF Len(room.players) >= room.maxPlayers THEN "RoomFull"
  ELSE IF room.password # NoPassword /\ room.password # password THEN "Unauthorized"
  ELSE "pass"

\* JoinCheck without the password test
JoinCheckNoPassword(room, u, password) ==
  IF room = Null THEN "NotFound"
  ELSE IF room.status # "waiting" THEN "InvalidState"
  ELSE IF Len(room.players) >= room.maxPlayers THEN "RoomFull"
  ELSE IF HasPlayer(room.players, u) THEN "AlreadyJoined"
  ELSE "pass"

\* JoinCheck with the capacity test off by one (`>` for `>=`)
JoinCheckOffByOne(room, u, password) ==
  IF room = Null THEN "NotFound"
  ELSE IF room.status # "waiting" THEN "InvalidState"
  ELSE IF Len(room.players) > room.maxPlayers THEN "RoomFull"
  ELSE IF room.password # NoPassword /\ room.password # password THEN "Unauthorized"
  ELSE IF HasPlayer(room.players, u) THEN "AlreadyJoined"
  ELSE "pass"

\* the handler's checks on the document it read, in source order
JoinCheck(room, u, password) ==
  IF room = Null THEN "NotFound"
  ELSE IF room.status # "waiting" THEN "InvalidState"
  ELSE IF Len(room.players) >= room.maxPlayers THEN "RoomFull"
  ELSE IF room.password # NoPassword /\ room.password # password THEN "Unauthorized"
  ELSE IF HasPlayer(room.players, u) THEN "AlreadyJoined"
  ELSE "pass"

\* the room is read and checked; the new player is built (joinedAt stamped);
\* the write is awaited
JoinFind(s) ==
  /\ At(s, "join", "j_find")
  /\ LET room == FindRoom(reqs[s].roomId)
         check == JoinCheck(room, reqs[s].user, reqs[s].body.password)
         newPlayer == [userId |-> reqs[s].user, playerName |-> reqs[s].body.playerName,
                       joinedAt |-> clock]
     IN IF check # "pass"
        THEN /\ reqs' = [reqs EXCEPT ![s] = [@ EXCEPT !.pc = "done", !.result = check, !.room = room]]
             /\ UNCHANGED clock
        ELSE IF backend = "firestore" /\ ~adminBound
        THEN \* ReferenceError on `admin.firestore.FieldValue`, caught: 500
             /\ reqs' = [reqs EXCEPT ![s] = [@ EXCEPT !.pc = "done", !.result = "InternalError",
                                                      !.room = room, !.newPlayer = newPlayer]]
             /\ clock' = clock + 1
        ELSE /\ reqs' = [reqs EXCEPT ![s] = [@ EXCEPT !.pc = "j_write", !.room = room,
                                                      !.newPlayer = newPlayer]]
             /\ clock' = clock + 1
  /\ UNCHANGED <<listed, backend, users, adminBound, rooms, nextId, events, budget, connected, subs, lostIn>>

\* PushPlayer marking the room in-game once the push fills it
PushPlayerAndStart(doc, p) ==
  [doc EXCEPT !.players = Append(@, p),
              !.status = IF Len(doc.players) + 1 >= doc.maxPlayers THEN "in-game" ELSE @]

\* $push of one element onto the stored array
PushPlayer(doc, p) == [doc EXCEPT !.players = Append(@, p)]

\* FieldValue.arrayUnion: appends unless an equal element is already stored
ArrayUnion(doc, p) ==
  IF \E i \in 1..Len(doc.players) : doc.players[i] = p THEN doc ELSE PushPlayer(doc, p)

\* mongoose: room.save() after players.push sends {$push, $inc __v} with no version
\* condition; no matching document -> save rejects (caught: 500)
JoinSaveMongoose(s) ==
  /\ backend = "mongoose"
  /\ At(s, "join", "j_write")
  /\ LET r == reqs[s].roomId
     IN IF ~Exists(r)
        THEN /\ Respond(s, "InternalError", Null)
             /\ UNCHANGED rooms
        ELSE /\ rooms' = [rooms EXCEPT ![r] = [PushPlayer(@, reqs[s].newPlayer) EXCEPT !.v = @ + 1]]
             /\ GotoWritten(s, "j_fetch")
  /\ UNCHANGED <<listed, backend, users, adminBound, nextId, clock, events, budget, connected, subs, lostIn>>

\* mongodb: updateOne({_id}, {$push}); an absent id matches nothing and is not an error
JoinPushMongo(s) ==
  /\ backend = "mongodb"
  /\ At(s, "join", "j_write")
  /\ LET r == reqs[s].roomId
     IN rooms' = IF Exists(r) THEN [rooms EXCEPT ![r] = PushPlayer(@, reqs[s].newPlayer)] ELSE rooms
  /\ GotoWritten(s, "j_fetch")
  /\ UNCHANGED <<listed, backend, users, adminBound, nextId, clock, events, budget, connected, subs, lostIn>>

\* firestore: roomRef.update({players: arrayUnion(newPlayer)}); update of an absent
\* document rejects (caught: 500)
JoinUpdateFirestore(s) ==
  /\ backend = "firestore"
  /\ At(s, "join", "j_write")
  /\ LET r == reqs[s].roomId
     IN IF ~Exists(r)
        THEN /\ Respond(s, "InternalError", Null)
             /\ UNCHANGED rooms
        ELSE /\ rooms' = [rooms EXCEPT ![r] = ArrayUnion(@, reqs[s].newPlayer)]
             /\ GotoWritten(s, "j_fetch")
  /\ UNCHANGED <<listed, backend, users, adminBound, nextId, clock, events, budget, connected, subs, lostIn>>

\* the room is read again; the host lookup (populate) is awaited.
\* mongoose: a null result is emitted and returned as is.
\* mongodb / firestore: updatedRoom.host on a missing document throws (caught: 500)
JoinFetch(s) ==
  /\ At(s, "join", "j_fetch")
  /\ LET r == reqs[s].roomId
         updatedRoom == IF backend = "mongoose" THEN SelectNoPassword(FindRoom(r)) ELSE FindRoom(r)
     IN IF updatedRoom = Null
        THEN IF backend = "mongoose"
             THEN /\ Emit("player-joined", r, Null, RoomAudience(r))
                  /\ Respond(s, "ok", Null)
             ELSE /\ Respond(s, "InternalError", Null)
                  /\ UNCHANGED events
        ELSE /\ reqs' = [reqs EXCEPT ![s] = [@ EXCEPT !.pc = "j_emit", !.updated = updatedRoom]]
             /\ UNCHANGED events
  /\ UNCHANGED <<listed, backend, users, adminBound, rooms, nextId, clock, budget, connected, subs, lostIn>>

\* host populated; the snapshot is published to the room and returned
JoinEmit(s) ==
  /\ At(s, "join", "j_emit")
  /\ Emit("player-joined", reqs[s].roomId, reqs[s].updated, RoomAudience(reqs[s].roomId))
  /\ reqs' = [reqs EXCEPT ![s] = [@ EXCEPT !.pc = "done", !.result = "ok",
                                           !.resp = reqs[s].updated, !.updated = Null]]
  /\ UNCHANGED <<listed, backend, users, adminBound, rooms, nextId, clock, budget, connected, subs, lostIn>>

(* ----------------------- POST /api/multiplayer/rooms/leave ------------- *)
\* request arrives; the room lookup is awaited (the body is not validated)
LeaveStart(s, u, r) ==
  /\ Arrives(s, u)
  /\ Admit(s, [Idle EXCEPT !.op = "leave", !.user = u, !.roomId = r, !.pc = "l_find"])
  /\ UNCHANGED <<listed, backend, adminBound, rooms, nextId, clock, events, connected, subs, lostIn>>

\* NewHost promoting the member that joined last
NewHostLast(room, players, u) == IF room.host = u THEN players[Len(players)].userId ELSE room.host

\* `room.host === uid ? players[0].userId : room.host`
NewHost(room, players, u) == IF room.host = u THEN players[1].userId ELSE room.host

\* mongoose: the document is read; players is reassigned to the filtered array on the
\* local document; empty -> findByIdAndDelete is awaited, else host is reassigned on
\* the local document and room.save() is awaited
LeaveFindMongoose(s) ==
  /\ backend = "mongoose"
  /\ At(s, "leave", "l_find")
  /\ LET room == FindRoom(reqs[s].roomId)
         u == reqs[s].user
     IN IF room = Null
        THEN Respond(s, "NotFound", Null)
        ELSE LET players == Filter(room.players, u)
             IN IF players = <<>>
                THEN reqs' = [reqs EXCEPT ![s] = [@ EXCEPT !.pc = "l_delete", !.room = room]]
                ELSE reqs' = [reqs EXCEPT ![s] =
                        [@ EXCEPT !.pc = "l_save", !.room = room,
                                  !.updated = [room EXCEPT !.players = players,
                                                           !.host = NewHost(room, players, u)]]]
  /\ UNCHANGED <<listed, backend, users, adminBound, rooms, nextId, clock, events, budget, connected, subs, lostIn>>

\* the delete takes effect; room-closed goes to every connection
LeaveDelete(s) ==
  /\ At(s, "leave", "l_delete")
  /\ rooms' = DeleteRoom(reqs[s].roomId)
  /\ Emit("room-closed", reqs[s].roomId, Null, connected)
  /\ reqs' = [reqs EXCEPT ![s] = [@ EXCEPT !.pc = "done", !.result = "ok", !.updated = Null,
                                           !.wrote = Wrote(s)]]
  /\ UNCHANGED <<listed, backend, users, adminBound, nextId, clock, budget, connected, subs, lostIn>>

\* mongoose: save() of a document whose array was reassigned sends
\* {$set players, host; $inc __v} where {_id, __v: the version read}; no match ->
\* VersionError (caught: 500).  Nothing modified -> nothing is sent.
\* The local document is published to the room.
LeaveSaveMongoose(s) ==
  /\ backend = "mongoose"
  /\ At(s, "leave", "l_save")
  /\ LET r == reqs[s].roomId
         room == reqs[s].room
         doc == reqs[s].updated
         modified == doc.players # room.players \/ doc.host # room.host
     IN IF modified /\ (~Exists(r) \/ rooms[r].v # room.v)
        THEN /\ reqs' = [reqs EXCEPT ![s] = [@ EXCEPT !.pc = "done", !.result = "InternalError",
                                                      !.updated = Null]]
             /\ UNCHANGED <<rooms, events>>
        ELSE /\ rooms' = IF modified
                         THEN [rooms EXCEPT ![r] = [@ EXCEPT !.players = doc.players,
                                                             !.host = doc.host, !.v = @ + 1]]
                         ELSE rooms
             /\ Emit("player-left", r, doc, RoomAudience(r))
             /\ reqs' = [reqs EXCEPT ![s] = [@ EXCEPT !.pc = "done", !.result = "ok",
                                                      !.updated = Null, !.wrote = Wrote(s)]]
  /\ UNCHANGED <<listed, backend, users, adminBound, nextId, clock, budget, connected, subs, lostIn>>

\* mongodb: the document is read; updateOne {$pull} is awaited
LeaveFindMongo(s) ==
  /\ backend = "mongodb"
  /\ At(s, "leave", "l_find")
  /\ LET room == FindRoom(reqs[s].roomId)
     IN IF room = Null
        THEN Respond(s, "NotFound", Null)
        ELSE reqs' = [reqs EXCEPT ![s] = [@ EXCEPT !.pc = "l_pull", !.room = room]]
  /\ UNCHANGED <<listed, backend, users, adminBound, rooms, nextId, clock, events, budget, connected, subs, lostIn>>

\* mongodb: the $pull takes effect; the re-read is awaited
LeavePullMongo(s) ==
  /\ backend = "mongodb"
  /\ At(s, "leave", "l_pull")
  /\ LET r == reqs[s].roomId
     IN rooms' = IF Exists(r)
                 THEN [rooms EXCEPT ![r] = [@ EXCEPT !.players = Filter(@, reqs[s].user)]]
                 ELSE rooms
  /\ GotoWritten(s, "l_fetch")
  /\ UNCHANGED <<listed, backend, users, adminBound, nextId, clock, events, budget, connected, subs, lostIn>>

\* mongodb: the document is read again; missing or empty -> deleteOne is awaited;
\* the leaver was the host read at the start -> updateOne {$set host} is awaited;
\* otherwise the re-read document is published
LeaveFetchMongo(s) ==
  /\ backend = "mongodb"
  /\ At(s, "leave", "l_fetch")
  /\ LET r == reqs[s].roomId
         updatedRoom == FindRoom(r)
     IN IF updatedRoom = Null \/ updatedRoom.players = <<>>
        THEN /\ Goto(s, "l_delete")
             /\ UNCHANGED events
        ELSE IF reqs[s].room.host = reqs[s].user
        THEN /\ reqs' = [reqs EXCEPT ![s] = [@ EXCEPT !.pc = "l_sethost", !.updated = updatedRoom]]
             /\ UNCHANGED events
        ELSE /\ Emit("player-left", r, updatedRoom, RoomAudience(r))
             /\ Respond(s, "ok", Null)
  /\ UNCHANGED <<listed, backend, users, adminBound, rooms, nextId, clock, budget, connected, subs, lostIn>>

\* mongodb: the $set of host takes effect; the document re-read before it is published
LeaveSetHostMongo(s) ==
  /\ backend = "mongodb"
  /\ At(s, "leave", "l_sethost")
  /\ LET r == reqs[s].roomId
         updatedRoom == reqs[s].updated
     IN /\ rooms' = IF Exists(r)
                    THEN [rooms EXCEPT ![r] = [@ EXCEPT !.host = updatedRoom.players[1].userId]]
                    ELSE rooms
        /\ Emit("player-left", r, updatedRoom, RoomAudience(r))
        /\ reqs' = [reqs EXCEPT ![s] = [@ EXCEPT !.pc = "done", !.result = "ok", !.updated = Null,
                                                 !.wrote = Wrote(s)]]
  /\ UNCHANGED <<listed, backend, users, adminBound, nextId, clock, budget, connected, subs, lostIn>>

\* firestore: the document is read and filtered locally; empty -> delete is awaited,
\* else update({players, host}) is awaited
LeaveFindFirestore(s) ==
  /\ backend = "firestore"
  /\ At(s, "leave", "l_find")
  /\ LET room == FindRoom(reqs[s].roomId)
         u == reqs[s].user
     IN IF room = Null
        THEN Respond(s, "NotFound", Null)
        ELSE LET players == Filter(room.players, u)
             IN IF players = <<>>
                THEN reqs' = [reqs EXCEPT ![s] = [@ EXCEPT !.pc = "l_delete", !.room = room]]
                ELSE reqs' = [reqs EXCEPT ![s] =
                        [@ EXCEPT !.pc = "l_update", !.room = room,
                                  !.updated = [players |-> players,
                                               host |-> NewHost(room, players, u)]]]
  /\ UNCHANGED <<listed, backend, users, adminBound, rooms, nextId, clock, events, budget, connected, subs, lostIn>>

\* firestore: update() overwrites players and host with the values computed from the
\* earlier read; update of an absent document rejects (caught: 500)
LeaveUpdateFirestore(s) ==
  /\ backend = "firestore"
  /\ At(s, "leave", "l_update")
  /\ LET r == reqs[s].roomId
     IN IF ~Exists(r)
        THEN /\ reqs' = [reqs EXCEPT ![s] = [@ EXCEPT !.pc = "done", !.result = "InternalError",
                                                      !.updated = Null]]
             /\ UNCHANGED rooms
        ELSE /\ rooms' = [rooms EXCEPT ![r] = [@ EXCEPT !.players = reqs[s].updated.players,
                                                        !.host = reqs[s].updated.host]]
             /\ reqs' = [reqs EXCEPT ![s] = [@ EXCEPT !.pc = "l_fetch", !.updated = Null,
                                                      !.wrote = Wrote(s)]]
  /\ UNCHANGED <<listed, backend, users, adminBound, nextId, clock, events, budget, connected, subs, lostIn>>

\* firestore: the document is read again and, if it still exists, published
LeaveFetchFirestore(s) ==
  /\ backend = "firestore"
  /\ At(s, "leave", "l_fetch")
  /\ LET r == reqs[s].roomId
         updatedRoom == FindRoom(r)
     IN /\ IF updatedRoom # Null
           THEN Emit("player-left", r, updatedRoom, RoomAudience(r))
           ELSE UNCHANGED events
        /\ Respond(s, "ok", Null)
  /\ UNCHANGED <<listed, backend, users, adminBound, rooms, nextId, clock, budget, connected, subs, lostIn>>

(* ------------------------- GET /api/multiplayer/rooms ------------------ *)
RECURSIVE SortByCreatedAtDesc(_)
\* .sort({ createdAt: -1 }) / orderBy('createdAt', 'desc') over the matching ids
SortByCreatedAtDesc(ids) ==
  IF ids = {} THEN <<>>
  ELSE LET newest == CHOOSE r \in ids : \A x \in ids : rooms[x].createdAt <= rooms[r].createdAt
       IN <<newest>> \o SortByCreatedAtDesc(ids \ {newest})

\* one entry of the listing: mongoose selects '-password'; mongodb returns the stored
\* document; firestore returns { id, ...doc.data() }
ListEntry(r) ==
  ("id" :> r) @@ (IF backend = "mongoose" THEN SelectNoPassword(rooms[r]) ELSE rooms[r])

\* the query { status: 'waiting', isPublic: true } is answered from the stored rooms
\* and the result is returned (the route takes no token; the host lookups that follow
\* read the users collection only)
ListRooms ==
  /\ LET matching == {r \in DOMAIN rooms : rooms[r].status = "waiting" /\ rooms[r].isPublic}
         sorted == SortByCreatedAtDesc(matching)
     IN listed' = [rooms |-> [i \in 1..Len(sorted) |-> ListEntry(sorted[i])]]
  /\ UNCHANGED <<backend, users, adminBound, rooms, nextId, clock, reqs, events, budget, connected,
                 subs, lostIn>>

(* ------------------------------ socket gateway ------------------------- *)
\* io.on('connection'): the client of a logged-in identity opens its socket
Connect(u) ==
  /\ u <= users
  /\ u \notin connected
  /\ Cardinality(connected) < MaxSockets
  /\ connected' = connected \cup {u}
  /\ lostIn' = [lostIn EXCEPT ![u] = {}]
  /\ UNCHANGED <<listed, backend, users, adminBound, rooms, nextId, clock, reqs, events, budget, subs>>

\* socket.on('join-room'): socket.join(roomId)
SocketJoinRoom(u, r) ==
  /\ u \in connected /\ r \notin subs[u]
  /\ subs' = [subs EXCEPT ![u] = @ \cup {r}]
  /\ UNCHANGED <<listed, backend, users, adminBound, rooms, nextId, clock, reqs, events, budget, connected, lostIn>>

\* socket.on('leave-room'): socket.leave(roomId)
SocketLeaveRoom(u, r) ==
  /\ u \in connected /\ r \in subs[u]
  /\ subs' = [subs EXCEPT ![u] = @ \ {r}]
  /\ UNCHANGED <<listed, backend, users, adminBound, rooms, nextId, clock, reqs, events, budget, connected, lostIn>>

\* socket.on('disconnect'): the handler only logs; socket.io drops the socket from
\* the rooms it had joined
Disconnect(u) ==
  /\ u \in connected
  /\ connected' = connected \ {u}
  /\ subs' = [subs EXCEPT ![u] = {}]
  /\ lostIn' = [lostIn EXCEPT ![u] = {r \in RoomIds : Exists(r) /\ HasPlayer(rooms[r].players, u)}]
  /\ UNCHANGED <<listed, backend, users, adminBound, rooms, nextId, clock, reqs, events, budget>>

(* ------------------------------ specification -------------------------- *)
\* room ids a client can name: the ids of the rooms stored so far, which clients learn
\* from responses, events and the listing (a room deleted since is among them)
KnownIds ==
  {r \in RoomIds : r < nextId /\ \A s \in Slots : ~(reqs[s].pc = "c_insert" /\ reqs[s].roomId = r)}

StartWith(creates, joins) ==
  \E s \in Slots, u \in UserIds :
    \/ \E body \in creates : CreateStart(s, u, body)
    \/ \E r \in KnownIds, body \in joins : JoinStart(s, u, r, body)
    \/ \E r \in KnownIds : LeaveStart(s, u, r)

Start == StartWith(CreateBodies, JoinBodies)

\* requests whose body passes validation and names no password
StartOpen ==
  StartWith({b \in CreateBodies : b.name # "" /\ b.password = NoPassword /\ b.isPublic},
            {b \in JoinBodies : b.playerName # "" /\ b.password = NoPassword})

\* a pending handler continues
StepOf(s) ==
  \/ CreateInsertMongoose(s) \/ CreateFetchMongoose(s) \/ CreateInsertDirect(s)
  \/ JoinFind(s) \/ JoinSaveMongoose(s) \/ JoinPushMongo(s) \/ JoinUpdateFirestore(s)
  \/ JoinFetch(s) \/ JoinEmit(s)
  \/ LeaveFindMongoose(s) \/ LeaveDelete(s) \/ LeaveSaveMongoose(s)
  \/ LeaveFindMongo(s) \/ LeavePullMongo(s) \/ LeaveFetchMongo(s) \/ LeaveSetHostMongo(s)
  \/ LeaveFindFirestore(s) \/ LeaveUpdateFirestore(s) \/ LeaveFetchFirestore(s)

Step == \E s \in Slots : StepOf(s)

Gateway ==
  \E u \in UserIds :
    \/ Connect(u)
    \/ Disconnect(u)
    \/ \E r \in KnownIds : SocketJoinRoom(u, r) \/ SocketLeaveRoom(u, r)

Next == Start \/ Step

Spec == Init /\ [][Next]_vars

\* the same with one more request
InitDeep == InitCommon /\ budget = MaxOps + 1

SpecDeep == InitDeep /\ [][Next]_vars

\* the routes together with the socket gateway
InitGateway == InitCommon /\ budget = MaxGatewayOps

NextGateway == StartOpen \/ Step \/ Gateway

SpecGateway == InitGateway /\ [][NextGateway]_vars

\* the same, where a handler that is waiting on the database is eventually resumed
SpecGatewayFair == SpecGateway /\ \A s \in Slots : WF_vars(StepOf(s))

\* the requests of the walk-through scenario, sent one after another: A (identity 1)
\* creates a public room for two, B (2) joins, C (3) tries to join, A leaves, B leaves,
\* C tries to join again
Scenario ==
  << [op |-> "create", user |-> 1,
      body |-> [name |-> "Warriors", maxPlayers |-> 2, isPublic |-> TRUE, password |-> NoPassword]],
     [op |-> "join",   user |-> 2, body |-> [playerName |-> "p", password |-> NoPassword]],
     [op |-> "join",   user |-> 3, body |-> [playerName |-> "p", password |-> NoPassword]],
     [op |-> "leave",  user |-> 1, body |-> Null],
     [op |-> "leave",  user |-> 2, body |-> Null],
     [op |-> "join",   user |-> 3, body |-> [playerName |-> "p", password |-> NoPassword]] >>

\* no request is in flight
Quiescent == \A s \in Slots : Free(s)

\* the next request of the scenario is sent once the previous one has been answered;
\* join and leave name the room the scenario created
ScenarioStart ==
  /\ Quiescent
  /\ budget > 0
  /\ LET req == Scenario[Len(Scenario) - budget + 1]
     IN \E s \in Slots :
          \/ req.op = "create" /\ CreateStart(s, req.user, req.body)
          \/ req.op = "join"   /\ JoinStart(s, req.user, nextId - 1, req.body)
          \/ req.op = "leave"  /\ LeaveStart(s, req.user, nextId - 1)

InitScenario == InitCommon /\ budget = Len(Scenario)

NextScenario == ScenarioStart \/ Step \/ Gateway

SpecScenario == InitScenario /\ [][NextScenario]_vars

\* the routes while sockets connect and disconnect
Sockets == \E u \in UserIds : Connect(u) \/ Disconnect(u)

NextSockets == Start \/ Step \/ Sockets

SpecSockets == Init /\ [][NextSockets]_vars

\* the routes together with the room listing
NextList == Start \/ Step \/ ListRooms

SpecList == Init /\ [][NextList]_vars

(* ======================================================================= *)
(*                               properties                                *)
(* ======================================================================= *)
Member(rs, r, u) == r \in DOMAIN rs /\ u \in Ids(rs[r].players)

\* the pending request in slot s takes a step
Moves(s) == ~Free(s) /\ reqs'[s].pc # reqs[s].pc

\* the request in slot s arrives in this step
ArrivesNow(s, op) ==
  /\ budget' < budget
  /\ Free(s) /\ \A t \in Slots : t < s => ~Free(t)
  /\ reqs'[s].op = op

Finished(s, op) == reqs[s].op = op /\ reqs[s].pc = "done"

\* number of events of one type emitted for room r
RECURSIVE CountEvents(_, _, _)
CountEvents(es, type, r) ==
  IF es = <<>> THEN 0
  ELSE (IF Head(es).type = type /\ Head(es).roomId = r THEN 1 ELSE 0)
       + CountEvents(Tail(es), type, r)

\* h is the identity of a member whose joinedAt is minimal in players
IsOldest(h, players) ==
  \E i \in 1..Len(players) :
    /\ players[i].userId = h
    /\ \A j \in 1..Len(players) : players[i].joinedAt <= players[j].joinedAt

\* C1: every stored room has at most maxPlayers members (stated for the rooms whose
\* stored maxPlayers is at least 1; what create stores for other values is C18)
C1_AtMostMaxPlayers ==
  \A r \in DOMAIN rooms :
    rooms[r].maxPlayers >= 1 => Len(rooms[r].players) <= rooms[r].maxPlayers

\* C2: the host of every stored room is the identity of one of its current members
C2_HostIsMember ==
  \A r \in DOMAIN rooms : rooms[r].host \in Ids(rooms[r].players)

\* C3: an identity appears at most once in the member list of a stored room
C3_UniqueMembers ==
  \A r \in DOMAIN rooms :
    \A i, j \in 1..Len(rooms[r].players) :
      i # j => rooms[r].players[i].userId # rooms[r].players[j].userId

\* C4: no stored room has an empty member list, in any state
C4_NeverEmpty ==
  \A r \in DOMAIN rooms : rooms[r].players # <<>>

\* the join in slot s read its room with exactly one free slot, passed every check and
\* was not answered with a server error
ReadOneFreeSlot(s) ==
  /\ reqs[s].room # Null
  /\ Len(reqs[s].room.players) = reqs[s].room.maxPlayers - 1
  /\ JoinCheck(reqs[s].room, reqs[s].user, reqs[s].body.password) = "pass"
  /\ reqs[s].result # "InternalError"

\* C5: of two joins by different identities that overlap in time on a room with
\* exactly one free slot, exactly one succeeds, the other fails RoomFull, and the room
\* ends with exactly maxPlayers members
C5_OneFreeSlotOneWinner ==
  \A s, t \in Slots :
    ( /\ s # t
      /\ Finished(s, "join") /\ Finished(t, "join")
      /\ t \in reqs[s].with
      /\ reqs[s].roomId = reqs[t].roomId
      /\ reqs[s].user # reqs[t].user
      /\ ReadOneFreeSlot(s) /\ ReadOneFreeSlot(t) )
    => /\ {reqs[s].result, reqs[t].result} = {"ok", "RoomFull"}
       /\ Exists(reqs[s].roomId)
       /\ Len(rooms[reqs[s].roomId].players) = rooms[reqs[s].roomId].maxPlayers

\* C6: joins and leaves on a room take effect one at a time; in particular a member is
\* taken out of a stored room (or the room deleted under it) only by a step of a leave
\* request of that same identity for that room, never by another identity's leave
C6_OnlyOwnLeaveRemoves ==
  [][ \A r \in RoomIds, u \in UserIds :
        (Member(rooms, r, u) /\ ~Member(rooms', r, u))
        => \E s \in Slots : /\ Moves(s)
                            /\ reqs[s].op = "leave"
                            /\ reqs[s].user = u
                            /\ reqs[s].roomId = r ]_vars

\* the stored room r is full
Full(r) == Exists(r) /\ Len(rooms[r].players) = rooms[r].maxPlayers

\* C7 as stated: a join of a room whose member count equals maxPlayers always fails
\* with RoomFull and leaves the stored rooms unchanged (the join is decided in the step
\* that rejects it on arrival, or in the step that reads the room)
C7_FullRoomAlwaysRoomFull ==
  [][ \A s \in Slots :
        ( /\ \/ ArrivesNow(s, "join") /\ reqs'[s].pc = "done"
             \/ At(s, "join", "j_find") /\ Moves(s)
          /\ Full(reqs'[s].roomId) )
        => /\ reqs'[s].pc = "done"
           /\ reqs'[s].result = "RoomFull"
           /\ rooms' = rooms ]_vars

\* C7 (amended): a join that carries a room id and a player name, when it reads a room
\* whose member count equals maxPlayers, fails with RoomFull and leaves the stored
\* rooms unchanged
C7_FullRoomRoomFull ==
  [][ \A s \in Slots :
        (At(s, "join", "j_find") /\ Moves(s) /\ Full(reqs[s].roomId))
        => /\ reqs'[s].pc = "done"
           /\ reqs'[s].result = "RoomFull"
           /\ rooms' = rooms ]_vars

\* a join was rejected RoomFull on a room it read with exactly maxPlayers members
C7_Witness ==
  \E s \in Slots :
    /\ Finished(s, "join")
    /\ reqs[s].result = "RoomFull"
    /\ Len(reqs[s].room.players) = reqs[s].room.maxPlayers

\* C8: once a leave by the only member of a room has completed, the room is gone
\* from the registry and exactly one room-closed event exists for its id
C8_SoleMemberLeaveCloses ==
  \A s \in Slots :
    ( /\ Finished(s, "leave")
      /\ reqs[s].room # Null
      /\ Ids(reqs[s].room.players) = {reqs[s].user} )
    => /\ ~Exists(reqs[s].roomId)
       /\ CountEvents(events, "room-closed", reqs[s].roomId) = 1

\* C9: when a leave of the host completes and the room still has members, the host is
\* the member with the minimum joinedAt among them
C9_OldestSurvivorIsHost ==
  [][ \A s \in Slots :
        ( /\ reqs[s].op = "leave" /\ reqs[s].pc # "done"
          /\ reqs'[s].pc = "done" /\ reqs'[s].result = "ok"
          /\ reqs[s].room.host = reqs[s].user
          /\ reqs[s].roomId \in DOMAIN rooms'
          /\ rooms'[reqs[s].roomId].players # <<>> )
        => IsOldest(rooms'[reqs[s].roomId].host, rooms'[reqs[s].roomId].players) ]_vars

\* identity u lost its connection while occupying a slot of room r that it took
\* before the loss
LostMember(u, r) ==
  /\ r \in lostIn[u]
  /\ Exists(r)
  /\ HasPlayer(rooms[r].players, u)

\* C10: after a connection is lost, the identity eventually no longer occupies the
\* slots it held in any room
C10_LostConnectionLeaves ==
  \A u \in UserIds, r \in RoomIds : LostMember(u, r) ~> ~LostMember(u, r)

\* a room snapshot handed to a client carries no password
Stripped(snapshot) == snapshot = Null \/ snapshot.password = NoPassword

\* C11: no room snapshot sent as the payload of room-created, player-joined or
\* player-left, or as the response of a create or join request, contains the room's
\* password
C11_NoPasswordInSnapshots ==
  /\ \A i \in 1..Len(events) :
       events[i].type \in {"room-created", "player-joined", "player-left"}
         => Stripped(events[i].payload)
  /\ \A s \in Slots :
       reqs[s].op \in {"create", "join"} => Stripped(reqs[s].resp)

\* C12: every entry returned by the room listing is a room with status waiting and
\* isPublic true, and carries no password
C12_ListingPublicWaitingNoPassword ==
  listed # Null =>
    \A i \in 1..Len(listed.rooms) :
      /\ listed.rooms[i].status = "waiting"
      /\ listed.rooms[i].isPublic
      /\ listed.rooms[i].password = NoPassword

\* identities of a member list, in stored order
IdSeq(players) == [i \in 1..Len(players) |-> players[i].userId]

\* the first k requests of the scenario have been answered, none is in flight
Answered(k) == Quiescent /\ Len(Scenario) - budget = k

\* C13: in the scenario run one request after another: after A's create the room has
\* members [A], host A, status waiting; after B's join members [A,B]; C's join fails
\* RoomFull; after A's leave host is B, members [B] and one player-left was emitted;
\* after B's leave the room is deleted and one room-closed with its id was emitted;
\* the later join fails NotFound
C13_Scenario ==
  LET r == nextId - 1
      last == reqs[1]
  IN /\ Answered(1) => /\ last.result = "ok"
                       /\ Exists(r)
                       /\ IdSeq(rooms[r].players) = <<1>>
                       /\ rooms[r].host = 1
                       /\ rooms[r].status = "waiting"
     /\ Answered(2) => /\ last.result = "ok"
                       /\ Exists(r)
                       /\ IdSeq(rooms[r].players) = <<1, 2>>
     /\ Answered(3) => /\ last.result = "RoomFull"
                       /\ Exists(r)
                       /\ IdSeq(rooms[r].players) = <<1, 2>>
     /\ Answered(4) => /\ last.result = "ok"
                       /\ Exists(r)
                       /\ IdSeq(rooms[r].players) = <<2>>
                       /\ rooms[r].host = 2
                       /\ CountEvents(events, "player-left", r) = 1
     /\ Answered(5) => /\ last.result = "ok"
                       /\ ~Exists(r)
                       /\ CountEvents(events, "room-closed", r) = 1
     /\ Answered(6) => last.result = "NotFound"

\* the join errors in the order the checks are specified
ErrorOrder == <<"NotFound", "InvalidState", "RoomFull", "Unauthorized", "AlreadyJoined">>

\* the checks a join by u with this password fails on the room as stored
Failing(room, u, password) ==
  IF room = Null THEN {"NotFound"}
  ELSE {e \in {"InvalidState"} : room.status # "waiting"}
       \cup {e \in {"RoomFull"} : Len(room.players) >= room.maxPlayers}
       \cup {e \in {"Unauthorized"} : room.password # NoPassword /\ room.password # password}
       \cup {e \in {"AlreadyJoined"} : u \in Ids(room.players)}

\* the error of the first check, in the specified order, that fails ("none": all pass)
FirstFailing(room, u, password) ==
  LET failing == Failing(room, u, password)
  IN IF failing = {} THEN "none"
     ELSE ErrorOrder[CHOOSE i \in 1..Len(ErrorOrder) :
                       /\ ErrorOrder[i] \in failing
                       /\ \A j \in 1..(i - 1) : ErrorOrder[j] \notin failing]

\* the join in slot s is decided in this step against the stored rooms: it is
\* rejected on arrival, or it reads the room
JoinDecided(s) ==
  \/ ArrivesNow(s, "join") /\ reqs'[s].pc = "done"
  \/ At(s, "join", "j_find") /\ Moves(s)

\* C14 as stated: whenever a join request fails one of the five checks, the error
\* returned is that of the first check that fails, in the order NotFound,
\* InvalidState, RoomFull, Unauthorized, AlreadyJoined
C14_FirstFailingCheckAnyJoin ==
  [][ \A s \in Slots :
        LET first == FirstFailing(FindRoom(reqs'[s].roomId), reqs'[s].user, reqs'[s].body.password)
        IN (JoinDecided(s) /\ first # "none")
           => reqs'[s].pc = "done" /\ reqs'[s].result = first ]_vars

\* C14 (amended): a join that carries a room id and a player name and fails one of the
\* five checks on the room it reads is answered with the error of the first failing
\* check, in the order NotFound, InvalidState, RoomFull, Unauthorized, AlreadyJoined
C14_FirstFailingCheck ==
  [][ \A s \in Slots :
        LET first == FirstFailing(FindRoom(reqs[s].roomId), reqs[s].user, reqs[s].body.password)
        IN (At(s, "join", "j_find") /\ Moves(s) /\ first # "none")
           => reqs'[s].pc = "done" /\ reqs'[s].result = first ]_vars

\* a member re-joined its full room and was answered RoomFull
C14_Witness ==
  \E s \in Slots :
    /\ Finished(s, "join")
    /\ reqs[s].result = "RoomFull"
    /\ reqs[s].room # Null
    /\ reqs[s].user \in Ids(reqs[s].room.players)

\* the stored room r was created with a password
Locked(r) == Exists(r) /\ rooms[r].password # NoPassword

\* u is in the stored member list of r with a record that is not the creator's
\* (the creator's record is stamped with the room's creation time)
Guest(rs, r, u) ==
  /\ r \in DOMAIN rs
  /\ \E i \in 1..Len(rs[r].players) :
       rs[r].players[i].userId = u /\ rs[r].players[i].joinedAt # rs[r].createdAt

\* an identity becomes a guest of a room created with a password only in a step of
\* its own join request that supplied exactly that password, or when a leave writes
\* back a member list it read earlier, in which the identity already was
GuestsSuppliedPassword ==
  \A r \in RoomIds, u \in UserIds :
    (Locked(r) /\ ~Guest(rooms, r, u) /\ Guest(rooms', r, u))
    => \E s \in Slots :
         /\ Moves(s) /\ reqs[s].roomId = r
         /\ \/ /\ reqs[s].op = "join" /\ reqs[s].user = u
               /\ reqs[s].body.password = rooms[r].password
            \/ /\ reqs[s].op = "leave"
               /\ reqs[s].room # Null /\ u \in Ids(reqs[s].room.players)

\* C15 as stated: nobody but the creator becomes a member of a room created with a
\* password without a join that supplied exactly that password, and every join of
\* such a room with a missing or different password fails with Unauthorized and
\* leaves the stored rooms unchanged
C15_WrongPasswordAlwaysUnauthorized ==
  [][ /\ GuestsSuppliedPassword
      /\ \A s \in Slots :
           ( /\ JoinDecided(s)
             /\ Locked(reqs'[s].roomId)
             /\ reqs'[s].body.password # rooms[reqs'[s].roomId].password )
           => /\ reqs'[s].pc = "done" /\ reqs'[s].result = "Unauthorized"
              /\ rooms' = rooms ]_vars

\* C15 (amended): nobody but the creator becomes a member of a room created with a
\* password without a join that supplied exactly that password; a join that carries a
\* room id and a player name and reads such a room while it is not full, with a
\* missing or different password, fails with Unauthorized and leaves the stored rooms
\* unchanged
C15_PasswordGate ==
  [][ /\ GuestsSuppliedPassword
      /\ \A s \in Slots :
           ( /\ At(s, "join", "j_find") /\ Moves(s)
             /\ Locked(reqs[s].roomId)
             /\ Len(rooms[reqs[s].roomId].players) < rooms[reqs[s].roomId].maxPlayers
             /\ reqs[s].body.password # rooms[reqs[s].roomId].password )
           => /\ reqs'[s].pc = "done" /\ reqs'[s].result = "Unauthorized"
              /\ rooms' = rooms ]_vars

\* a join of a room created with a password was answered Unauthorized, and another
\* identity is a guest of such a room
C15_Witness ==
  /\ \E s \in Slots :
       /\ Finished(s, "join") /\ reqs[s].result = "Unauthorized"
       /\ reqs[s].room # Null /\ reqs[s].room.password # NoPassword
  /\ \E r \in RoomIds, u \in UserIds : Locked(r) /\ Guest(rooms, r, u)

\* C16: a join that found its room existing, waiting, not full, with a matching (or no)
\* password and without the joining identity has succeeded once it is answered: the
\* response is a snapshot whose last member is the identity, and a player-joined
\* event with that snapshot was published for the room
C16_EligibleJoinSucceeds ==
  \A s \in Slots :
    ( /\ Finished(s, "join")
      /\ reqs[s].room # Null
      /\ FirstFailing(reqs[s].room, reqs[s].user, reqs[s].body.password) = "none" )
    => /\ reqs[s].result = "ok"
       /\ reqs[s].resp # Null
       /\ reqs[s].resp.players # <<>>
       /\ reqs[s].resp.players[Len(reqs[s].resp.players)].userId = reqs[s].user
       /\ \E i \in 1..Len(events) :
            /\ events[i].type = "player-joined"
            /\ events[i].roomId = reqs[s].roomId
            /\ events[i].payload = reqs[s].resp

\* the create in slot s is answered in this step
Answers(s, op) == reqs[s].op = op /\ ~Free(s) /\ reqs'[s].pc = "done"

\* C17: the step in which a create stores its room adds exactly that one room, under
\* an id no stored room, request or event has carried before, with status waiting, the
\* creator as only member and as host; and the step that answers a successful create
\* emits the one room-created event of that room, to all connections
C17_CreateAddsOneRoom ==
  [][ \A s \in Slots :
        LET r == reqs[s].roomId
            u == reqs[s].user
        IN /\ (At(s, "create", "c_insert") /\ Moves(s))
              => /\ r \notin DOMAIN rooms
                 /\ DOMAIN rooms' = DOMAIN rooms \cup {r}
                 /\ \A x \in DOMAIN rooms : rooms'[x] = rooms[x]
                 /\ \A t \in Slots \ {s} : reqs[t].roomId # r
                 /\ \A i \in 1..Len(events) : events[i].roomId # r
                 /\ rooms'[r].status = "waiting"
                 /\ IdSeq(rooms'[r].players) = <<u>>
                 /\ rooms'[r].host = u
           /\ (Answers(s, "create") /\ reqs'[s].result = "ok")
              => /\ Len(events') = Len(events) + 1
                 /\ events'[Len(events')].type = "room-created"
                 /\ events'[Len(events')].roomId = r
                 /\ events'[Len(events')].to = connected
                 /\ CountEvents(events', "room-created", r) = 1 ]_vars

\* two rooms have been created, one of them while a socket was connected
C17_Witness ==
  /\ \E s \in Slots : Finished(s, "create") /\ reqs[s].result = "ok"
  /\ \E i, j \in 1..Len(events) :
       /\ events[i].type = "room-created" /\ events[j].type = "room-created"
       /\ events[i].roomId # events[j].roomId
       /\ events[j].to # {}

\* C18: a create whose name is empty or whose requested maxPlayers is below 1 is
\* answered ValidationError on arrival, and neither then nor later stores a room or
\* emits an event
C18_CreateValidation ==
  [][ \A s \in Slots :
        /\ ( /\ ArrivesNow(s, "create")
             /\ (reqs'[s].body.name = "" \/ reqs'[s].body.maxPlayers < 1) )
           => /\ reqs'[s].pc = "done" /\ reqs'[s].result = "ValidationError"
              /\ rooms' = rooms /\ events' = events
        /\ ( /\ reqs[s].op = "create" /\ Moves(s)
             /\ (reqs[s].body.name = "" \/ reqs[s].body.maxPlayers < 1) )
           => rooms' = rooms /\ events' = events ]_vars

\* C19: when a join or leave is answered, either it reports success, or it reports an
\* error having changed nothing and published nothing; if it changed the stored rooms
\* it reports success and publishes its event
C19_AppliedOrFailedClean ==
  [][ \A s \in Slots :
        (Answers(s, "join") \/ Answers(s, "leave"))
        => /\ reqs'[s].wrote => (reqs'[s].result = "ok" /\ events' # events)
           /\ reqs'[s].result # "ok" => (~reqs'[s].wrote /\ events' = events) ]_vars

\* C20: a leave that found its room existing and without the leaving identity, while
\* the identity is still not a member, changes neither the members nor the host nor
\* the presence of that room in any of its steps, and is answered with success
C20_NonMemberLeaveIsNoOp ==
  [][ \A s \in Slots :
        LET r == reqs[s].roomId
            u == reqs[s].user
        IN ( /\ reqs[s].op = "leave" /\ Moves(s)
             /\ reqs[s].room # Null
             /\ u \notin Ids(reqs[s].room.players)
             /\ Exists(r) => u \notin Ids(rooms[r].players) )
           => /\ Exists(r) => /\ r \in DOMAIN rooms'
                              /\ rooms'[r].players = rooms[r].players
                              /\ rooms'[r].host = rooms[r].host
              /\ reqs'[s].pc = "done" => reqs'[s].result = "ok" ]_vars

\* an event of this type is emitted for room r in this step
Emits(type, r) ==
  /\ Len(events') = Len(events) + 1
  /\ events'[Len(events')].type = type
  /\ events'[Len(events')].roomId = r

\* C21: a room-closed event is emitted for a room id only by a step that removes the
\* room from the registry, and only if none was emitted for that id before: at most
\* one per id under any interleaving, none for an id that is already absent
C21_AtMostOneRoomClosed ==
  [][ \A r \in RoomIds :
        Emits("room-closed", r)
        => /\ Exists(r)
           /\ CountEvents(events, "room-closed", r) = 0 ]_vars

\* the member entry p is part of the snapshot carried by event e
Shows(e, p) ==
  e.payload # Null /\ \E i \in 1..Len(e.payload.players) : e.payload.players[i] = p

\* C22: the player-joined event of a join carries the room as it was right after that
\* join's own mutation (the entry it pushed is the last member of the snapshot), and
\* events reach the room in the order of the mutations (no player-joined or player-left event
\* published earlier for the room already shows the entry this join pushed)
C22_EventsInMutationOrder ==
  [][ \A s \in Slots :
        (reqs[s].op = "join" /\ Moves(s) /\ Emits("player-joined", reqs[s].roomId))
        => LET e == events'[Len(events')]
               p == reqs[s].newPlayer
           IN /\ e.payload # Null
              /\ e.payload.players[Len(e.payload.players)] = p
              /\ \A i \in 1..Len(events) :
                   (events[i].roomId = reqs[s].roomId
                      /\ events[i].type \in {"player-joined", "player-left"})
                   => ~Shows(events[i], p) ]_vars

\* room-closed has been published for room id r
Closed(r) == CountEvents(events, "room-closed", r) > 0

\* C23: an empty or deleted room is never joined: a join answered with success read a
\* room that was stored, had at least one member and was waiting; and a join whose
\* lookup runs after the room was closed is answered NotFound
C23_NoJoinOnEmptyOrDeleted ==
  [][ \A s \in Slots :
        /\ (Answers(s, "join") /\ reqs'[s].result = "ok")
           => /\ reqs[s].room # Null
              /\ reqs[s].room.players # <<>>
              /\ reqs[s].room.status = "waiting"
        /\ (At(s, "join", "j_find") /\ Moves(s) /\ Closed(reqs[s].roomId))
           => reqs'[s].result = "NotFound" ]_vars

\* C24: a listing taken while joins and leaves are in progress changes no room and
\* shows no partially applied change: no listed room has more members than its
\* maxPlayers (stated for maxPlayers of at least 1, see C1) or a host that is not
\* among its listed members
C24_ListingShowsNoPartialChange ==
  [][ listed' # listed
      => /\ rooms' = rooms
         /\ \A i \in 1..Len(listed'.rooms) :
              LET e == listed'.rooms[i]
              IN /\ e.maxPlayers >= 1 => Len(e.players) <= e.maxPlayers
                 /\ HasPlayer(e.players, e.host) ]_vars

\* slot s holds a join or leave request that has not been answered
InProgress(s) == ~Free(s) /\ reqs[s].op \in {"join", "leave"}

\* C25: a step of a join or leave request changes the members, host and status of no
\* room other than the one it names (and neither stores nor removes another room),
\* and a join or leave in progress always has a step it can take, whatever a request
\* on a different room is doing
C25_OtherRoomsUntouched ==
  /\ [][ \A s \in Slots :
           (InProgress(s) /\ Moves(s))
           => \A r \in RoomIds \ {reqs[s].roomId} :
                /\ Exists(r) <=> r \in DOMAIN rooms'
                /\ Exists(r) => /\ rooms'[r].players = rooms[r].players
                                /\ rooms'[r].host = rooms[r].host
                                /\ rooms'[r].status = rooms[r].status ]_vars
  /\ [](\A s \in Slots : InProgress(s) => ENABLED StepOf(s))

\* two requests on different stored rooms are in progress, and one of them has
\* already changed its room
C25_Witness ==
  \E s, t \in Slots :
    /\ InProgress(s) /\ InProgress(t)
    /\ reqs[s].roomId # reqs[t].roomId
    /\ Exists(reqs[s].roomId) /\ Exists(reqs[t].roomId)
    /\ reqs[s].wrote

(* ------------------------- forwarding through the gateway -------------- *)
\* messages forwarded in one behaviour
MaxForwards == 2

\* io.on('connection'): a client opens a socket (the handshake carries no token, so
\* any client may; Connect is the case of a logged-in identity's single socket)
Connection(u) ==
  /\ u \notin connected
  /\ connected' = connected \cup {u}
  /\ lostIn' = [lostIn EXCEPT ![u] = {}]
  /\ UNCHANGED <<listed, backend, users, adminBound, rooms, nextId, clock, reqs, events, budget, subs>>

\* the object a client sends with game-event / chat-message; `from` stands for the
\* sending socket
Data(u, r) == [roomId |-> r, from |-> u]

\* GameEvent forwarding to the sender as well
GameEventToAll(u, r) ==
  /\ u \in connected /\ Len(events) < MaxForwards
  /\ Emit("game-event", r, Data(u, r), RoomAudience(r))
  /\ UNCHANGED <<listed, backend, users, adminBound, rooms, nextId, clock, reqs, budget, connected, subs, lostIn>>

\* socket.on('game-event'): socket.to(data.roomId).emit: every socket in the room
\* except the sending one
GameEvent(u, r) ==
  /\ u \in connected /\ Len(events) < MaxForwards
  /\ Emit("game-event", r, Data(u, r), RoomAudience(r) \ {u})
  /\ UNCHANGED <<listed, backend, users, adminBound, rooms, nextId, clock, reqs, budget, connected, subs, lostIn>>

\* socket.on('chat-message'): io.to(data.roomId).emit: every socket in the room
ChatMessage(u, r) ==
  /\ u \in connected /\ Len(events) < MaxForwards
  /\ Emit("chat-message", r, Data(u, r), RoomAudience(r))
  /\ UNCHANGED <<listed, backend, users, adminBound, rooms, nextId, clock, reqs, budget, connected, subs, lostIn>>

\* the gateway alone: sockets open and close, subscribe to and unsubscribe from any
\* room name (socket.join takes whatever string the client sends) and forward
NextForward ==
  \E u \in UserIds :
    \/ Connection(u)
    \/ Disconnect(u)
    \/ \E r \in RoomIds : \/ SocketJoinRoom(u, r) \/ SocketLeaveRoom(u, r)
                          \/ GameEvent(u, r) \/ ChatMessage(u, r)

InitForward == InitCommon /\ budget = 0

SpecForward == InitForward /\ [][NextForward]_vars

\* the event published in this step
Published == events'[Len(events')]

\* C26 as stated: a forwarded game-event or chat-message goes to exactly the
\* connections subscribed to the room at that moment, the sender included
C26_ForwardedToAllSubscribers ==
  [][ \A r \in RoomIds :
        (Emits("game-event", r) \/ Emits("chat-message", r))
        => Published.to = RoomAudience(r) ]_vars

\* C26: a forwarded chat-message goes to exactly the connections subscribed to the
\* room at that moment, the sender included if subscribed; a forwarded game-event
\* goes to exactly the subscribed connections other than the sender
C26_ForwardedToSubscribers ==
  [][ \A r \in RoomIds :
        /\ Emits("chat-message", r) => Published.to = RoomAudience(r)
        /\ Emits("game-event", r)
           => Published.to = RoomAudience(r) \ {Published.payload.from} ]_vars

\* a game-event was just forwarded by a subscribed sender, reached another
\* subscriber, and a connection that is not subscribed is open
C26_Witness ==
  /\ events # <<>>
  /\ LET e == events[Len(events)]
     IN /\ e.type = "game-event"
        /\ e.payload.from \in RoomAudience(e.roomId)
        /\ e.to = RoomAudience(e.roomId) \ {e.payload.from}
        /\ e.to # {}
        /\ \E w \in connected : e.roomId \notin subs[w]

\* C27: the payload of every player-left event is the room after the leave was fully
\* applied: the departed member is not among its members, and its host is one of its
\* members
C27_PlayerLeftAfterLeaveApplied ==
  [][ \A s \in Slots :
        (reqs[s].op = "leave" /\ Moves(s) /\ Emits("player-left", reqs[s].roomId))
        => /\ Published.payload # Null
           /\ ~HasPlayer(Published.payload.players, reqs[s].user)
           /\ HasPlayer(Published.payload.players, Published.payload.host) ]_vars

(* --------------------------- one request at a time --------------------- *)
\* requests sent one after the other
MaxSerialOps == 5

\* the next request is sent once the previous one has been answered
SerialStart == Quiescent /\ Start

InitSerial == InitCommon /\ budget = MaxSerialOps

NextSerial == SerialStart \/ Step

SpecSerial == InitSerial /\ [][NextSerial]_vars

\* C30: with requests executed one at a time, whenever no request is in flight the
\* host of every stored room is the identity of the first element of its member list
C30_HostIsFirstMember ==
  Quiescent
  => \A r \in DOMAIN rooms :
       /\ rooms[r].players # <<>>
       /\ rooms[r].host = rooms[r].players[1].userId

\* a host has left a room that had other members: the room is still stored and its
\* first member is one that joined after the room was created
C30_Witness ==
  /\ Quiescent
  /\ \E r \in DOMAIN rooms :
       /\ CountEvents(events, "player-left", r) > 0
       /\ rooms[r].players # <<>>
       /\ rooms[r].players[1].joinedAt > rooms[r].createdAt

\* C28: a leave publishes room-closed exactly when it empties the room (the members
\* stored before its step are at most the leaver) and player-left exactly when it does
\* not; and once room-closed was published for a room id, no player-joined or
\* player-left is published for that id
C28_ClosedOrLeftNeverBoth ==
  [][ /\ \A s \in Slots :
           (reqs[s].op = "leave" /\ Moves(s))
           => LET r == reqs[s].roomId
                  empties == Exists(r) /\ Filter(rooms[r].players, reqs[s].user) = <<>>
              IN /\ Emits("room-closed", r) => empties /\ ~Exists(r)'
                 /\ Emits("player-left", r) => ~empties /\ Exists(r)'
      /\ \A r \in RoomIds :
           Closed(r) => ~Emits("player-joined", r) /\ ~Emits("player-left", r) ]_vars

\* C29: every room-created event carries the snapshot of a room whose isPublic is
\* true: the creation of a non-public room is not announced
C29_OnlyPublicRoomsAnnounced ==
  \A i \in 1..Len(events) :
    events[i].type = "room-created"
    => events[i].payload # Null /\ events[i].payload.isPublic

\* the entries of a member list are in non-decreasing joinedAt order
InJoinOrder(players) ==
  \A i, j \in 1..Len(players) : i < j => players[i].joinedAt <= players[j].joinedAt

\* C31: in every reachable state the members of every stored room are stored in
\* non-decreasing joinedAt order, so the first element is the member with the
\* minimum joinedAt
C31_MembersInJoinedAtOrder ==
  \A r \in DOMAIN rooms : InJoinOrder(rooms[r].players)

\* the entries of the members of room r other than identity u, in stored order
\* (none when the room is not stored)
Others(rs, r, u) == IF r \in DOMAIN rs THEN Filter(rs[r].players, u) ELSE <<>>

\* C32: a step of a join or leave by identity X changes only X's own entry in the
\* room: the entries of all other members and their relative order are the same
\* before and after the step
C32_OnlyOwnEntryChanges ==
  [][ \A s \in Slots :
        (InProgress(s) /\ Moves(s))
        => Others(rooms', reqs[s].roomId, reqs[s].user)
             = Others(rooms, reqs[s].roomId, reqs[s].user) ]_vars

C34_StatusAndSettingsNeverChange ==
  /\ [](\A r \in DOMAIN rooms : rooms[r].status = "waiting")
  /\ [][ \A r \in DOMAIN rooms :
           r \in DOMAIN rooms'
           => /\ rooms'[r].name = rooms[r].name
              /\ rooms'[r].maxPlayers = rooms[r].maxPlayers
              /\ rooms'[r].isPublic = rooms[r].isPublic
              /\ rooms'[r].password = rooms[r].password
              /\ rooms'[r].createdAt = rooms[r].createdAt
              /\ rooms'[r].status = rooms[r].status ]_vars

\* a stored room with a password has been changed by a join and by a leave: a
\* leave that was answered changed it, and a member that joined after the creation
\* is in it
C34_Witness ==
  \E r \in DOMAIN rooms :
    /\ rooms[r].password # NoPassword
    /\ \E i \in 1..Len(rooms[r].players) : rooms[r].players[i].joinedAt > rooms[r].createdAt
    /\ \E s \in Slots : /\ reqs[s].op = "leave" /\ reqs[s].pc = "done"
                        /\ reqs[s].roomId = r /\ reqs[s].wrote

====
